---- MODULE Spec2Model ----
(***************************************************************************)
(* Model of UserService (src/src/moderatelyTestable.ts): an in-memory     *)
(* cache of users with one shared freshness timestamp, an in-flight flag, *)
(* a remote client, a persistent store and a logger.                       *)
(* Its calculateUserScore, and fetchUserDataWithRetry and the listeners   *)
(* of HardToTest (src/src/hardToTest.ts), are modelled further down, each *)
(* with a specification of its own; in each specification the variables   *)
(* of the other programs stay as they begin.                               *)
(*                                                                         *)
(* JavaScript runs one handler at a time, so every action below is one    *)
(* run-to-completion piece of code: the synchronous part of a call up to  *)
(* its first pending await, the continuation after a remote response, or  *)
(* a timer callback.  Continuations that are separated by microtasks only *)
(* (a caller's code after `await this.getUserById(..)`) read no shared    *)
(* state that another microtask could have changed, and are folded into   *)
(* the step that settles the promise.                                      *)
(***************************************************************************)
EXTENDS Integers, Sequences, FiniteSets, TLC

\* ---------------------------------------------------------------- bounds
NumCallers == 2      \* concurrent callers of the service
MaxCalls == 2        \* calls started in one behaviour
MaxTime == 200       \* the simulated clock stops here (ms)

Callers == 1..NumCallers
Ids == {"a", "b"}
Times == {100}                 \* by how much the clock advances at once (ms)
CacheDurations == {200}        \* constructor argument cacheDuration (ms)
PollDelay == 100               \* setTimeout(.., 100)
\* Date.now() when the service is constructed (ms since the epoch): later
\* than the epoch by more than any cacheDuration, so that a freshness clock
\* of 0 is stale.
StartTime == 1000

\* ------------------------------------------------------------ data model
\* lastLogin?: Date.  type is "undefined", "Date" or, in JSON, "string".
NoLogin == [type |-> "undefined", t |-> 0]
DateOf(t) == [type |-> "Date", t |-> t]

\* preferences?: UserPreferences.  set = FALSE is `undefined`.
NoPrefs ==
  [set |-> FALSE, theme |-> "system", notifications |-> FALSE, language |-> "en"]
Prefs(th, n, l) ==
  [set |-> TRUE, theme |-> th, notifications |-> n, language |-> l]

\* Partial<UserPreferences>: keys is the set of properties the object has.
Partial(ks, th, n, l) ==
  [keys |-> ks, theme |-> th, notifications |-> n, language |-> l]

\* interface User, without name and email, which no operation on the cache
\* reads.  NoUser is null/undefined.
User(i, ll, pr) == [id |-> i, lastLogin |-> ll, preferences |-> pr]
NoUser == User("", NoLogin, NoPrefs)

\* What the remote client may answer, apart from the id.
ServerBodies ==
  { [lastLogin |-> NoLogin, preferences |-> NoPrefs],
    [lastLogin |-> DateOf(0), preferences |-> Prefs("dark", TRUE, "en")] }

\* The partial preferences callers pass to updateUserPreferences.
Partials ==
  { Partial({"language"}, "system", FALSE, "fr") }

\* Errors thrown to the caller.
NoError == [msg |-> "", id |-> ""]
\* Variant of FetchError: the message without the id.
FetchErrorWithoutId(id) == [msg |-> "Failed to fetch user with ID", id |-> ""]
FetchError(id) == [msg |-> "Failed to fetch user with ID", id |-> id]
UpdateError(id) == [msg |-> "Failed to update preferences for user", id |-> id]

\* ------------------------------------------------------------ Map<string, _>
EmptyMap == [k \in {} |-> NoUser]
MapHas(m, k) == k \in DOMAIN m
MapGet(m, k) == IF k \in DOMAIN m THEN m[k] ELSE NoUser
\* Variant of MapSet: the entry is not written.
MapSetDropped(m, k, v) == m
MapSet(m, k, v) == [x \in DOMAIN m \cup {k} |-> IF x = k THEN v ELSE m[x]]

\* ------------------------------------------------------------ JSON
\* JSON.stringify(user): a Date becomes a string, undefined properties vanish.
ToJSON(ll) == IF ll.type = "Date" THEN [type |-> "string", t |-> ll.t] ELSE ll
Stringify(user) ==
  [kind |-> "json", body |-> [user EXCEPT !.lastLogin = ToJSON(@)]]
\* A stored string that JSON.parse rejects.
Corrupt == [kind |-> "corrupt", body |-> NoUser]
\* What the store holds for an absent key (getItem returns null).
Absent == [kind |-> "null", body |-> NoUser]
\* Variant of Rehydrate: the parsed lastLogin is left a string.
RehydrateSkipped(body) == body

\* new Date(user.lastLogin) when the parsed lastLogin is truthy.
Rehydrate(body) ==
  [body EXCEPT !.lastLogin =
     IF @.type = "undefined" THEN @ ELSE DateOf(@.t)]

\* ---------------------------------------------------------------- state
VARIABLES
  cachedUsers,      \* Map<string, User>
  lastFetchTime,    \* the freshness clock
  fetchInProgress,  \* the in-flight flag
  cacheDuration,    \* constructor argument
  storage,          \* the injected Storage: key user_<id> -> string
  clock,            \* Date.now()
  pc,               \* where each caller's call stands
  call,             \* the call each caller makes: op, id, partial
  now,              \* the local `now` of the call that is fetching
  timerAt,          \* when the caller's poll timer was set
  postBody,         \* updatedPreferences of a pending POST
  out,              \* what the last handler did to the outside: the promise
                    \* it settled and what it passed to the logger
  nCalls,           \* calls started so far
  budget,           \* calls that may be started in this behaviour
  \* History, read by no operation:
  waitsOn,          \* per polling caller: the GET for the same id that was
                    \* outstanding when it began to poll, and how it ended
  successAt,        \* per id: when its last successful GET returned, -1 if
                    \* none since the last clearCache; recorded under
                    \* SpecTimed only
  dirty,            \* per caller: its updateUserPreferences call has changed
                    \* the cache, the freshness clock or the store
  beforeClear       \* req, per caller: its outstanding request was issued
                    \* before the last clearCache; entry, per id: the cache
                    \* entry was written by such a request; fresh: the ids
                    \* that clearCache found cached and fresh; recorded
                    \* under SpecLong only
\* calculateUserScore(user), which reads nothing of the service:
VARIABLES
  scoreUser,        \* its argument
  score             \* what it returned or threw, once it has run
\* fetchUserDataWithRetry(userId, maxRetries) of src/src/hardToTest.ts:
VARIABLES
  maxRetries,       \* its argument
  retryCount,       \* its local variable
  retryPc,          \* where it is: "fetch" and "json" (the awaits of
                    \* attemptFetch), "wait" (the timer), "done", "idle"
  delay,            \* of the pending timer (ms)
  elapsed,          \* since the pending timer was set (ms)
  retryOut,         \* how its promise settled
  attempts          \* history: calls of fetch so far
\* The listeners of HardToTest, src/src/hardToTest.ts:
VARIABLES
  listeners,        \* this._listeners
  invoked,          \* the callbacks the last notifyListeners called, in order
  listenerOut       \* what the last operation was, what it passed to
                    \* console.error, and whether it threw

service == <<cachedUsers, lastFetchTime, fetchInProgress>>
callers == <<pc, call, now, timerAt, postBody>>
environment == <<cacheDuration, storage, clock>>
history == <<waitsOn, successAt, dirty, beforeClear>>
\* What no operation of the service writes.
scoring == <<scoreUser, score>>
retrying == <<maxRetries, retryCount, retryPc, delay, elapsed, retryOut, attempts>>
listening == <<listeners, invoked, listenerOut>>
others == <<budget, scoring, retrying, listening>>
vars == <<cachedUsers, lastFetchTime, fetchInProgress, cacheDuration, storage,
          clock, pc, call, now, timerAt, postBody, out, nCalls,
          waitsOn, successAt, dirty, beforeClear, budget, scoreUser, score,
          maxRetries, retryCount, retryPc, delay, elapsed, retryOut, attempts,
          listeners, invoked, listenerOut>>

\* interface User as calculateUserScore reads it; strings are sequences of
\* characters.  NoProfile is null.
Profile(n, e, ll, pr) ==
  [null |-> FALSE, name |-> n, email |-> e, lastLogin |-> ll, preferences |-> pr]
NoProfile ==
  [null |-> TRUE, name |-> << >>, email |-> << >>, lastLogin |-> NoLogin,
   preferences |-> NoPrefs]

\* Values of score.
NotScored == [kind |-> "none", value |-> 0]
Returned(n) == [kind |-> "returned", value |-> n]
ThrewTypeError == [kind |-> "threw", value |-> 0]

\* calculateUserScore is not called.
NoScoring == scoreUser = NoProfile /\ score = NotScored

\* Values of retryOut: the promise resolved with the body, or rejected with
\* the error, of the attempt-th call of fetch.
NotSettled == [kind |-> "none", attempt |-> 0]
RetryResolved(n) == [kind |-> "resolved", attempt |-> n]
RetryRejected(n) == [kind |-> "rejected", attempt |-> n]

\* fetchUserDataWithRetry is not called.
NoRetrying ==
  /\ maxRetries = 0
  /\ retryCount = 0
  /\ retryPc = "idle"
  /\ delay = 0
  /\ elapsed = 0
  /\ retryOut = NotSettled
  /\ attempts = 0

\* Values of listenerOut.
ListenerOut(op, cb, errors, threw) ==
  [op |-> op, cb |-> cb, errors |-> errors, threw |-> threw]
NoListenerOp == ListenerOut("none", "", 0, FALSE)

\* No HardToTest is in use.
NoListening ==
  /\ listeners = << >>
  /\ invoked = << >>
  /\ listenerOut = NoListenerOp

\* The service is the only program running.
OnlyService == NoScoring /\ NoRetrying /\ NoListening

NoCall == [op |-> "none", id |-> "", partial |-> Partial({}, "system", FALSE, "en")]
GetCall(id) == [op |-> "get", id |-> id, partial |-> NoCall.partial]
UpdateCall(id, partial) == [op |-> "update", id |-> id, partial |-> partial]

\* The promise of caller p's call c settled: resolved with user or rejected
\* with error.  threw: a call of the store threw in the handler; logs is what
\* the handler passed to the logger.
Resolved(p, c, user, threw, logs) ==
  [p |-> p, call |-> c, kind |-> "resolved", user |-> user, error |-> NoError,
   threw |-> threw, logs |-> logs]
Rejected(p, c, error, threw, logs) ==
  [p |-> p, call |-> c, kind |-> "rejected", user |-> NoUser, error |-> error,
   threw |-> threw, logs |-> logs]
Pending(threw, logs) ==
  [p |-> 0, call |-> NoCall, kind |-> "none", user |-> NoUser, error |-> NoError,
   threw |-> threw, logs |-> logs]

\* Values of waitsOn.  st is "none", "pending" (the GET is outstanding), "ok"
\* (it succeeded: started is when its call read the clock, user what it
\* fetched), "replaced" (ok, and an updateUserPreferences has since written
\* the entry) or "served" (ok, and the caller's retry then hit the cache).
NotWaiting == [st |-> "none", started |-> 0, user |-> NoUser]
WaitingFor(st, started, user) == [st |-> st, started |-> started, user |-> user]

\* The store a service is constructed over: nothing under one key, a string
\* that is no JSON under the other.  Copies of users get there by the
\* service's own saves.
InitialStores == { [i \in Ids |-> IF i = "a" THEN Absent ELSE Corrupt] }

\* Values of successAt.
Untimed == [i \in Ids |-> -2]
NoSuccess == [i \in Ids |-> -1]

\* Values of beforeClear.
Unmarked == [on |-> FALSE, req |-> [p \in Callers |-> FALSE],
             entry |-> [i \in Ids |-> FALSE], fresh |-> {}]
Marked == [Unmarked EXCEPT !.on = TRUE]

InitService ==
  /\ cachedUsers = EmptyMap
  /\ lastFetchTime = 0
  /\ fetchInProgress = FALSE
  /\ cacheDuration \in CacheDurations
  /\ storage \in InitialStores
  /\ clock = StartTime
  /\ pc = [p \in Callers |-> "idle"]
  /\ call = [p \in Callers |-> NoCall]
  /\ now = [p \in Callers |-> 0]
  /\ timerAt = [p \in Callers |-> 0]
  /\ postBody = [p \in Callers |-> NoPrefs]
  /\ out = Pending(FALSE, << >>)
  /\ nCalls = 0
  /\ waitsOn = [p \in Callers |-> NotWaiting]
  /\ dirty = [p \in Callers |-> FALSE]

Init ==
  /\ InitService
  /\ successAt = Untimed
  /\ beforeClear = Unmarked
  /\ budget = MaxCalls
  /\ OnlyService

\* The same service, with the times of successful GETs recorded.
InitTimed ==
  /\ InitService
  /\ successAt = NoSuccess
  /\ beforeClear = Unmarked
  /\ budget = MaxCalls
  /\ OnlyService

\* The service is constructed and no call is made on it.
ServiceIdle ==
  /\ InitService
  /\ successAt = Untimed
  /\ beforeClear = Unmarked
  /\ budget = 0
userService == <<service, callers, environment, history, out, nCalls, budget>>

\* A service on which one getUserById("a") has run, with no delay, and
\* succeeded; two more calls may follow.  Times of successful GETs are
\* recorded.
InitWarm ==
  /\ \E body \in ServerBodies, store \in InitialStores :
       LET user == User("a", body.lastLogin, body.preferences) IN
       /\ cachedUsers = MapSet(EmptyMap, "a", user)
       /\ storage = [store EXCEPT !["a"] = Stringify(user)]
       /\ out = Resolved(1, GetCall("a"), user, FALSE, << >>)
  /\ lastFetchTime = StartTime
  /\ fetchInProgress = FALSE
  /\ cacheDuration \in CacheDurations
  /\ clock = StartTime
  /\ pc = [p \in Callers |-> "idle"]
  /\ call = [p \in Callers |-> NoCall]
  /\ now = [p \in Callers |-> 0]
  /\ timerAt = [p \in Callers |-> 0]
  /\ postBody = [p \in Callers |-> NoPrefs]
  /\ nCalls = 1
  /\ waitsOn = [p \in Callers |-> NotWaiting]
  /\ dirty = [p \in Callers |-> FALSE]
  /\ successAt = [NoSuccess EXCEPT !["a"] = StartTime]
  /\ beforeClear = Unmarked
  /\ budget = MaxCalls + 1
  /\ OnlyService

\* ------------------------------------------------------- pure helpers
\* Variants of CacheHit: the comparison turned round; the bound included.
CacheHitInverted(cachedUser, t, last, dur) ==
  cachedUser # NoUser /\ t - last > dur
CacheHitInclusive(cachedUser, t, last, dur) ==
  cachedUser # NoUser /\ t - last <= dur

\* Variant of CacheHit: only the clock is looked at.
CacheHitAnyEntry(cachedUser, t, last, dur) == t - last < dur

\* line 60: cachedUser && (now - this.lastFetchTime < this.cacheDuration)
CacheHit(cachedUser, t, last, dur) == cachedUser # NoUser /\ t - last < dur

\* Variant of MergePreferences: the two spreads in the other order.
MergePreferencesReversed(existing, partial) ==
  LET pick(f, dflt) ==
        IF existing.set THEN existing[f]
        ELSE IF f \in partial.keys THEN partial[f] ELSE dflt
  IN Prefs(pick("theme", "system"), pick("notifications", FALSE),
           pick("language", "en"))

\* lines 119-125: { theme: 'system', notifications: false, language: 'en',
\*                  ...user.preferences, ...preferences }
MergePreferences(existing, partial) ==
  LET pick(f, dflt) ==
        IF f \in partial.keys THEN partial[f]
        ELSE IF existing.set THEN existing[f] ELSE dflt
  IN Prefs(pick("theme", "system"), pick("notifications", FALSE),
           pick("language", "en"))

\* saveUserToStorage: the store after the call; a throwing setItem is caught.
SaveUserToStorage(store, user, throws) ==
  IF throws THEN store ELSE [store EXCEPT ![user.id] = Stringify(user)]
\* Variant of SaveLogs: an empty catch block.
SaveLogsSilent(throws) == << >>
SaveLogs(throws) ==
  IF throws THEN <<"error:Failed to save user to storage">> ELSE << >>

\* getUserFromStorage: the user read back, NoUser for null.
StorageReadFails(store, id, throws) ==
  throws \/ store[id].kind = "corrupt"
GetUserFromStorage(store, id, throws) ==
  IF StorageReadFails(store, id, throws) THEN NoUser
  ELSE IF store[id].kind = "null" THEN NoUser
  ELSE Rehydrate(store[id].body)
ReadLogs(store, id, throws) ==
  IF StorageReadFails(store, id, throws)
  THEN <<"error:Failed to get user from storage">> ELSE << >>

\* beforeClear after caller p's request for id has been answered and, with
\* wrote, its result put in the cache; and after a clearCache that found the
\* ids of fresh cached and fresh.
Answered(bc, p, id, wrote) ==
  IF ~bc.on THEN bc
  ELSE [bc EXCEPT !.req[p] = FALSE,
                  !.entry[id] = IF wrote THEN bc.req[p] ELSE @]
Overtaken(bc, pcs, fresh) ==
  IF ~bc.on THEN bc
  ELSE [bc EXCEPT !.req = [p \in Callers |-> pcs[p] \in {"awaitGet", "awaitPost"}],
                  !.entry = [i \in Ids |-> FALSE],
                  !.fresh = fresh]

\* ------------------------------------------------------------ operations
\* The caller's code after its getUserById promise settles.  A plain
\* getUserById caller sees the result; updateUserPreferences (lines 116-131)
\* merges the preferences and issues the POST, or (lines 142-145) logs and
\* throws its own error.
AfterGet(p, c, ok, user, threw, logs) ==
  IF c.op = "get"
  THEN /\ pc' = [pc EXCEPT ![p] = "idle"]
       /\ call' = [call EXCEPT ![p] = NoCall]
       /\ out' = IF ok THEN Resolved(p, c, user, threw, logs)
                 ELSE Rejected(p, c, FetchError(c.id), threw, logs)
       /\ UNCHANGED postBody
  ELSE IF ok
  THEN /\ pc' = [pc EXCEPT ![p] = "awaitPost"]
       /\ call' = [call EXCEPT ![p] = c]
       /\ postBody' =
            [postBody EXCEPT ![p] = MergePreferences(user.preferences, c.partial)]
       /\ out' = Pending(threw, logs)
  ELSE /\ pc' = [pc EXCEPT ![p] = "idle"]
       /\ call' = [call EXCEPT ![p] = NoCall]
       /\ out' = Rejected(p, c, UpdateError(c.id), threw,
                          logs \o <<"error:Failed to update preferences">>)
       /\ UNCHANGED postBody

\* Variant of MustPoll: the flag is not looked at.
MustPollNever(inProgress) == FALSE

\* What getUserById does with the in-flight flag when the cache misses.
\* lines 66-73: poll;  lines 75-79: set the flag and issue the GET.
MustPoll(inProgress) == inProgress

\* getUserById(id) from its first line to its first suspension, lines 55-79.
GetUserById(p, c) ==
  LET cachedUser == MapGet(cachedUsers, c.id)
      hit == CacheHit(cachedUser, clock, lastFetchTime, cacheDuration)
  IN
  /\ timerAt' = [timerAt EXCEPT ![p] =
                   IF ~hit /\ MustPoll(fetchInProgress) THEN clock ELSE 0]
  /\ IF hit
     THEN /\ AfterGet(p, c, TRUE, cachedUser, FALSE, <<"log:Cache hit for user">>)
          /\ UNCHANGED <<fetchInProgress, now>>
     ELSE IF MustPoll(fetchInProgress)
     THEN /\ pc' = [pc EXCEPT ![p] = "poll"]
          /\ call' = [call EXCEPT ![p] = c]
          /\ out' = Pending(FALSE, << >>)
          /\ UNCHANGED <<fetchInProgress, now, postBody>>
     ELSE /\ fetchInProgress' = TRUE
          /\ now' = [now EXCEPT ![p] = clock]
          /\ pc' = [pc EXCEPT ![p] = "awaitGet"]
          /\ call' = [call EXCEPT ![p] = c]
          /\ out' = Pending(FALSE, <<"log:Fetching user data">>)
          /\ UNCHANGED postBody
  /\ waitsOn' =
       [waitsOn EXCEPT ![p] =
          IF c.op # "get" \/ (pc[p] = "idle" /\ hit) THEN NotWaiting
          ELSE IF hit
          THEN IF @.st = "ok" THEN [@ EXCEPT !.st = "served"] ELSE NotWaiting
          ELSE IF ~MustPoll(fetchInProgress) THEN NotWaiting
          ELSE IF pc[p] = "poll" /\ @.st # "none" THEN @
          ELSE IF \E q \in Callers : pc[q] = "awaitGet" /\ call[q].id = c.id
               THEN WaitingFor("pending", 0, NoUser)
               ELSE NotWaiting]
  /\ dirty' = [dirty EXCEPT ![p] = IF pc[p] = "idle" THEN FALSE ELSE @]
  /\ UNCHANGED <<cachedUsers, lastFetchTime, successAt, beforeClear>>
  /\ UNCHANGED environment
  /\ UNCHANGED others

\* Callers are interchangeable: a new call takes the first free caller.
CanStart(p) ==
  /\ pc[p] = "idle"
  /\ \A q \in Callers : q < p => pc[q] # "idle"
  /\ nCalls < budget

\* A caller calls getUserById(id).
StartGet(p) ==
  /\ CanStart(p)
  /\ nCalls' = nCalls + 1
  /\ \E id \in Ids : GetUserById(p, GetCall(id))

\* A caller calls updateUserPreferences(id, partial): line 116.
StartUpdate(p) ==
  /\ CanStart(p)
  /\ nCalls' = nCalls + 1
  /\ \E id \in Ids, partial \in Partials : GetUserById(p, UpdateCall(id, partial))

\* lines 69-71: the timer fires, not before its delay, and the call starts over.
PollRetry(p) ==
  /\ pc[p] = "poll"
  /\ clock >= timerAt[p] + PollDelay
  /\ UNCHANGED nCalls
  /\ GetUserById(p, call[p])

\* The freshness clock after a successful GET, line 83.
FetchTime(started, finished) == started

\* Variant of Finally: no finally block.
FinallySkipped(inProgress) == inProgress

\* The flag after the finally block, line 100.
Finally(inProgress) == FALSE

\* lines 79-88 and 99-101: the GET succeeds.
GetSucceeds(p) ==
  /\ pc[p] = "awaitGet"
  /\ \E body \in ServerBodies, throws \in BOOLEAN :
       LET user == User(call[p].id, body.lastLogin, body.preferences) IN
       /\ cachedUsers' = MapSet(cachedUsers, call[p].id, user)
       /\ lastFetchTime' = FetchTime(now[p], clock)
       /\ storage' = SaveUserToStorage(storage, user, throws)
       /\ fetchInProgress' = Finally(fetchInProgress)
       /\ AfterGet(p, call[p], TRUE, user, throws, SaveLogs(throws))
       /\ waitsOn' =
            [q \in Callers |->
               IF waitsOn[q].st = "pending"
               THEN WaitingFor("ok", now[p], user) ELSE waitsOn[q]]
  /\ now' = [now EXCEPT ![p] = 0]
  /\ successAt' = IF successAt = Untimed THEN successAt
                  ELSE [successAt EXCEPT ![call[p].id] = clock]
  /\ dirty' = [dirty EXCEPT ![p] =
                 /\ call[p].op = "update"
                 /\ <<cachedUsers, lastFetchTime, storage>>'
                      # <<cachedUsers, lastFetchTime, storage>>]
  /\ beforeClear' = Answered(beforeClear, p, call[p].id, TRUE)
  /\ UNCHANGED <<cacheDuration, clock, timerAt, nCalls>>
  /\ UNCHANGED others

\* lines 89-101: the GET fails; fall back to the store.
GetFails(p) ==
  /\ pc[p] = "awaitGet"
  /\ \E throws \in BOOLEAN :
       LET storedUser == GetUserFromStorage(storage, call[p].id, throws) IN
       AfterGet(p, call[p], storedUser # NoUser, storedUser, throws,
                <<"error:Failed to fetch user">>
                  \o ReadLogs(storage, call[p].id, throws))
  /\ fetchInProgress' = Finally(fetchInProgress)
  /\ now' = [now EXCEPT ![p] = 0]
  /\ waitsOn' =
       [q \in Callers |->
          IF waitsOn[q].st = "pending" THEN NotWaiting ELSE waitsOn[q]]
  /\ beforeClear' = Answered(beforeClear, p, call[p].id, FALSE)
  /\ UNCHANGED <<cachedUsers, lastFetchTime, timerAt, nCalls, successAt, dirty>>
  /\ UNCHANGED environment
  /\ UNCHANGED others

\* Variant of WithPreferences: the response is cached as the server sent it.
WithServerPreferences(user, preferences) == user

\* line 134: user.preferences = updatedPreferences
WithPreferences(user, preferences) == [user EXCEPT !.preferences = preferences]

\* Variant of CacheAfterPost: the entry is written whatever the POST did.
CacheAfterPostAlways(cache, id, ok, user) == MapSet(cache, id, user)

\* The cache after the POST step, line 135.
CacheAfterPost(cache, id, ok, user) ==
  IF ok THEN MapSet(cache, id, user) ELSE cache

\* lines 128-141: the POST succeeds.
PostSucceeds(p) ==
  /\ pc[p] = "awaitPost"
  /\ \E body \in ServerBodies, throws \in BOOLEAN :
       LET response == User(call[p].id, body.lastLogin, body.preferences)
           user == WithPreferences(response, postBody[p])
       IN
       /\ cachedUsers' = CacheAfterPost(cachedUsers, call[p].id, TRUE, user)
       /\ storage' = SaveUserToStorage(storage, user, throws)
       /\ out' = Resolved(p, call[p], user, throws,
                          SaveLogs(throws)
                            \o <<"log:Updated user preferences">>)
  /\ pc' = [pc EXCEPT ![p] = "idle"]
  /\ call' = [call EXCEPT ![p] = NoCall]
  /\ postBody' = [postBody EXCEPT ![p] = NoPrefs]
  /\ waitsOn' =
       [q \in Callers |->
          IF waitsOn[q].st = "ok" /\ pc[q] = "poll" /\ call[q].id = call[p].id
          THEN [waitsOn[q] EXCEPT !.st = "replaced"] ELSE waitsOn[q]]
  /\ dirty' = [dirty EXCEPT ![p] = FALSE]
  /\ beforeClear' = Answered(beforeClear, p, call[p].id, TRUE)
  /\ UNCHANGED <<lastFetchTime, fetchInProgress, cacheDuration, clock, now,
                 timerAt, nCalls, successAt>>
  /\ UNCHANGED others

\* lines 142-145: the POST fails.
PostFails(p) ==
  /\ pc[p] = "awaitPost"
  /\ cachedUsers' = CacheAfterPost(cachedUsers, call[p].id, FALSE, NoUser)
  /\ out' = Rejected(p, call[p], UpdateError(call[p].id), FALSE,
                     <<"error:Failed to update preferences">>)
  /\ pc' = [pc EXCEPT ![p] = "idle"]
  /\ call' = [call EXCEPT ![p] = NoCall]
  /\ postBody' = [postBody EXCEPT ![p] = NoPrefs]
  /\ dirty' = [dirty EXCEPT ![p] = FALSE]
  /\ beforeClear' = Answered(beforeClear, p, call[p].id, FALSE)
  /\ UNCHANGED <<lastFetchTime, fetchInProgress, now, timerAt, nCalls,
                 waitsOn, successAt>>
  /\ UNCHANGED environment
  /\ UNCHANGED others

\* clearCache(), lines 233-236.
ClearCache ==
  /\ cachedUsers' = EmptyMap
  /\ lastFetchTime' = 0
  /\ out' = Pending(FALSE, << >>)
  /\ waitsOn' = [q \in Callers |-> NotWaiting]
  /\ successAt' = IF successAt = Untimed THEN successAt ELSE NoSuccess
  /\ beforeClear' =
       Overtaken(beforeClear, pc,
                 {i \in Ids : CacheHit(MapGet(cachedUsers, i), clock,
                                       lastFetchTime, cacheDuration)})
  /\ UNCHANGED <<fetchInProgress, nCalls, dirty>>
  /\ UNCHANGED others
  /\ UNCHANGED environment
  /\ UNCHANGED callers

\* Time passes.
Tick ==
  /\ \E d \in Times : clock + d <= StartTime + MaxTime /\ clock' = clock + d
  /\ out' = Pending(FALSE, << >>)
  /\ UNCHANGED <<service, nCalls>>
  /\ UNCHANGED others
  /\ UNCHANGED <<cacheDuration, storage>>
  /\ UNCHANGED callers
  /\ UNCHANGED history

Next ==
  \/ \E p \in Callers : StartGet(p)
  \/ \E p \in Callers : StartUpdate(p)
  \/ \E p \in Callers : PollRetry(p)
  \/ \E p \in Callers : GetSucceeds(p)
  \/ \E p \in Callers : GetFails(p)
  \/ \E p \in Callers : PostSucceeds(p)
  \/ \E p \in Callers : PostFails(p)
  \/ ClearCache
  \/ Tick

Spec == Init /\ [][Next]_vars
SpecTimed == InitTimed /\ [][Next]_vars

\* A service on which one updateUserPreferences("a", partial) has run as far
\* as its POST, with no delay: its GET has succeeded and the POST is
\* outstanding.  Two more calls may follow, and the requests that a
\* clearCache overtakes are marked.
InitLong ==
  /\ \E body \in ServerBodies, partial \in Partials, store \in InitialStores :
       LET user == User("a", body.lastLogin, body.preferences) IN
       /\ cachedUsers = MapSet(EmptyMap, "a", user)
       /\ storage = SaveUserToStorage(store, user, FALSE)
       /\ call = [p \in Callers |->
                    IF p = 1 THEN UpdateCall("a", partial) ELSE NoCall]
       /\ postBody = [p \in Callers |->
                        IF p = 1 THEN MergePreferences(user.preferences, partial)
                        ELSE NoPrefs]
  /\ pc = [p \in Callers |-> IF p = 1 THEN "awaitPost" ELSE "idle"]
  /\ out = Pending(FALSE, << >>)
  /\ lastFetchTime = StartTime
  /\ fetchInProgress = FALSE
  /\ cacheDuration \in CacheDurations
  /\ clock = StartTime
  /\ now = [p \in Callers |-> 0]
  /\ timerAt = [p \in Callers |-> 0]
  /\ nCalls = 1
  /\ waitsOn = [p \in Callers |-> NotWaiting]
  /\ dirty = [p \in Callers |-> p = 1]
  /\ successAt = Untimed
  /\ beforeClear = Marked
  /\ budget = MaxCalls + 1
  /\ OnlyService
SpecLong == InitLong /\ [][Next]_vars
SpecWarm == InitWarm /\ [][Next]_vars

\* Time passes beyond MaxTime.  The clock is then as far from StartTime as the
\* model counts, and every recorded time moves back instead; one that falls
\* before StartTime is older than any delay or cacheDuration the service
\* compares it with, and is kept as 0.
Aged(t, d) == IF t - d < StartTime THEN 0 ELSE t - d
Slide ==
  /\ \E d \in Times :
       /\ clock + d > StartTime + MaxTime
       /\ lastFetchTime' = Aged(lastFetchTime, d)
       /\ now' = [p \in Callers |-> Aged(now[p], d)]
       /\ timerAt' = [p \in Callers |-> Aged(timerAt[p], d)]
       /\ waitsOn' = [p \in Callers |->
                        [waitsOn[p] EXCEPT !.started = Aged(@, d)]]
  /\ out' = Pending(FALSE, << >>)
  /\ UNCHANGED <<cachedUsers, fetchInProgress, pc, call, postBody, nCalls,
                 successAt, dirty, beforeClear>>
  /\ UNCHANGED environment
  /\ UNCHANGED others

NextFair == Next \/ Slide

\* Every remote call is answered, time passes, and a timer that is due fires.
Fairness ==
  /\ WF_vars(Tick \/ Slide)
  /\ \A p \in Callers :
       /\ WF_vars(PollRetry(p))
       /\ WF_vars(GetSucceeds(p) \/ GetFails(p))
       /\ WF_vars(PostSucceeds(p) \/ PostFails(p))
SpecFair == Init /\ [][NextFair]_vars /\ Fairness

\* ---------------------------------------------------------------- steps
Range(seq) == {seq[i] : i \in 1..Len(seq)}
Logged(o, m) == m \in Range(o.logs)

\* Caller p's call begins in this step.
Started(p) == CanStart(p) /\ nCalls' = nCalls + 1
\* Caller p's poll timer fires in this step.
Retried(p) == pc[p] = "poll" /\ (pc'[p] # "poll" \/ timerAt'[p] # timerAt[p])
\* Caller p's call runs the cache check (lines 57-63) in this step ...
Checked(p) == Started(p) \/ Retried(p)
\* ... on behalf of this call.
CheckedCall(p) ==
  IF pc[p] = "poll" THEN call[p]
  ELSE IF pc'[p] # "idle" THEN call'[p] ELSE out'.call
\* Caller p's GET returns in this step, with a failure or with a user.
GetReturned(p) == pc[p] = "awaitGet" /\ pc'[p] # "awaitGet"
GetFailed(p) == GetReturned(p) /\ Logged(out', "error:Failed to fetch user")
GetSucceeded(p) == GetReturned(p) /\ ~Logged(out', "error:Failed to fetch user")
\* Caller p's promise resolves with user in this step.
ResolvesWith(p, user) ==
  pc'[p] = "idle" /\ out'.kind = "resolved" /\ out'.p = p /\ out'.user = user

Fetching == {p \in Callers : pc[p] = "awaitGet"}

\* ------------------------------------------------------------------- C1
\* C1: at most one GET of getUserById is outstanding at any time; a call that
\* misses the cache while fetchInProgress is true issues no GET, sets the
\* 100 ms timer and runs again from the cache check no sooner than that.
C1_SerializedGets ==
  /\ [](Cardinality(Fetching) <= 1)
  /\ [][\A p \in Callers :
         /\ ( /\ Checked(p)
              /\ fetchInProgress
              /\ ~( MapHas(cachedUsers, CheckedCall(p).id)
                    /\ clock - lastFetchTime < cacheDuration )
              => /\ pc'[p] = "poll"
                 /\ timerAt'[p] = clock
                 /\ Fetching' = Fetching )
         /\ (Retried(p) => clock >= timerAt[p] + 100)]_vars

\* One call awaits its GET while a call for another id polls.
C1_Witness ==
  \E p, q \in Callers :
    pc[p] = "awaitGet" /\ pc[q] = "poll" /\ call[p].id # call[q].id

\* ------------------------------------------------------------------- C2
\* C2 as claimed: a getUserById(id) call that began to poll while a GET for
\* the same id was outstanding, which then succeeded with no clearCache since,
\* issues no GET of its own and resolves with the entity that GET fetched.
C2_Original ==
  [][\A p \in Callers :
       Retried(p) /\ waitsOn[p].st \in {"ok", "replaced"}
       => /\ pc'[p] # "awaitGet"
          /\ (pc'[p] = "idle" => ResolvesWith(p, waitsOn[p].user))]_vars

\* C2 as amended: the same, provided the poller's retry runs less than
\* cacheDuration ms after the first call read the clock and no
\* updateUserPreferences for the id has succeeded since the GET returned.
C2_Deduplicated ==
  [][\A p \in Callers :
       /\ Retried(p)
       /\ waitsOn[p].st = "ok"
       /\ clock - waitsOn[p].started < cacheDuration
       => ResolvesWith(p, waitsOn[p].user)]_vars

\* A poller has been served, from the cache, what the GET it waited on fetched.
C2_Witness ==
  \E p \in Callers :
    /\ waitsOn[p].st = "served"
    /\ out.kind = "resolved" /\ out.p = p /\ out.user = waitsOn[p].user
    /\ Logged(out, "log:Cache hit for user")

\* ------------------------------------------------------------------- C3
\* C3: a getUserById(id) call made less than cacheDuration ms after a GET for
\* id succeeded, with no clearCache in between, performs no remote call and
\* returns the cached entity.
C3_FreshAfterSuccess ==
  [][\A p \in Callers :
       LET c == CheckedCall(p) IN
       /\ Checked(p)
       /\ successAt[c.id] >= 0
       /\ clock - successAt[c.id] < cacheDuration
       => /\ pc'[p] \notin {"poll", "awaitGet"}
          /\ (c.op = "get" => ResolvesWith(p, MapGet(cachedUsers, c.id)))]_vars

C5_FallbackToStore ==
  [][\A p \in Callers :
       /\ ( /\ GetFailed(p)
            /\ storage[call[p].id].kind = "json"
            /\ ~out'.threw
            => IF call[p].op = "get"
               THEN /\ pc'[p] = "idle" /\ out'.kind = "resolved" /\ out'.p = p
                    /\ Stringify(out'.user) = storage[call[p].id]
                    /\ out'.user.lastLogin.type # "string"
               ELSE pc'[p] = "awaitPost" )
       /\ ( Checked(p) \/ GetFailed(p)
            => UNCHANGED <<cachedUsers, lastFetchTime>> )]_vars

\* A call has resolved from the store with a Date, and the cache has no
\* entry for its id.
C5_Witness ==
  /\ out.kind = "resolved"
  /\ Logged(out, "error:Failed to fetch user")
  /\ out.user.lastLogin.type = "Date"
  /\ ~MapHas(cachedUsers, out.call.id)

\* ------------------------------------------------------------------- C6
\* C6: when the GET fails and the store has nothing under the id, or reading
\* or parsing it throws, the call rejects with the service's own error, which
\* names the id, and the cache and the freshness clock stay as they are.
C6_FetchFails ==
  [][\A p \in Callers :
       /\ GetFailed(p)
       /\ (storage[call[p].id].kind # "json" \/ out'.threw)
       => /\ pc'[p] = "idle" /\ out'.kind = "rejected" /\ out'.p = p
          /\ out'.error.id = call[p].id
          /\ out'.error.msg = IF call[p].op = "get"
                              THEN "Failed to fetch user with ID"
                              ELSE "Failed to update preferences for user"
          /\ UNCHANGED <<cachedUsers, lastFetchTime>>]_vars

\* A getUserById call has been rejected with the error naming its id.
C6_Witness ==
  /\ out.kind = "rejected"
  /\ out.call.op = "get"
  /\ out.error.msg = "Failed to fetch user with ID"
  /\ out.error.id = out.call.id
  /\ out.call.id \in Ids

\* ------------------------------------------------------------------- C7
\* C7: fetchInProgress is true exactly when one getUserById call is between
\* setting the flag and its finally block, so it is false once that call has
\* finished, however it finished.
C7_FlagReleased ==
  /\ fetchInProgress = (Cardinality(Fetching) = 1)
  /\ Cardinality(Fetching) <= 1

\* A call that set the flag has thrown, and the flag is down.
C7_Witness ==
  /\ ~fetchInProgress
  /\ out.kind = "rejected"
  /\ Logged(out, "error:Failed to fetch user")

\* ------------------------------------------------------------------- C8
\* C8: when setItem throws after a successful GET or a successful POST, the
\* call still resolves with the entity, the cache entry is written, the store
\* is left alone and the failure goes to logger.error.
C8_SaveFailureSwallowed ==
  [][\A p \in Callers :
       /\ ( GetSucceeded(p) /\ out'.threw
            => /\ MapHas(cachedUsers', call[p].id)
               /\ IF call[p].op = "get"
                  THEN ResolvesWith(p, cachedUsers'[call[p].id])
                  ELSE pc'[p] = "awaitPost"
               /\ Logged(out', "error:Failed to save user to storage")
               /\ storage' = storage )
       /\ ( pc[p] = "awaitPost" /\ pc'[p] # "awaitPost" /\ out'.threw
            => /\ MapHas(cachedUsers', call[p].id)
               /\ ResolvesWith(p, cachedUsers'[call[p].id])
               /\ out'.user.preferences = postBody[p]
               /\ Logged(out', "error:Failed to save user to storage")
               /\ storage' = storage )]_vars

\* A call has resolved with the entity it cached although the save threw.
C8_Witness ==
  /\ out.threw
  /\ out.kind = "resolved"
  /\ Logged(out, "error:Failed to save user to storage")
  /\ MapGet(cachedUsers, out.call.id) = out.user

\* ------------------------------------------------------------------- C9
\* The entity the getUserById call inside updateUserPreferences gave caller p
\* in this step: from the cache, from the store or from the GET.
FetchedFor(p) ==
  IF pc[p] # "awaitGet" THEN MapGet(cachedUsers, call'[p].id)
  ELSE IF GetFailed(p) THEN GetUserFromStorage(storage, call[p].id, FALSE)
  ELSE cachedUsers'[call[p].id]

\* C9: the preferences updateUserPreferences POSTs are, field by field, the
\* value in the partial if it has the field, else the fetched entity's value
\* if it has preferences, else the default; on success the call returns and
\* caches the server's entity with exactly these preferences.
C9_MergedPreferences ==
  [][\A p \in Callers :
       /\ ( pc[p] # "awaitPost" /\ pc'[p] = "awaitPost"
            => LET old == FetchedFor(p).preferences
                   new == call'[p].partial
                   field(f, dflt) ==
                     IF f \in new.keys THEN new[f]
                     ELSE IF old.set THEN old[f] ELSE dflt
               IN /\ postBody'[p].set
                  /\ postBody'[p].theme = field("theme", "system")
                  /\ postBody'[p].notifications = field("notifications", FALSE)
                  /\ postBody'[p].language = field("language", "en") )
       /\ ( pc[p] = "awaitPost" /\ pc'[p] = "idle" /\ out'.kind = "resolved"
            => /\ out'.p = p
               /\ out'.user.preferences = postBody[p]
               /\ out'.user.id = call[p].id
               /\ MapGet(cachedUsers', call[p].id) = out'.user )]_vars

\* An update of the language alone has kept the entity's theme and
\* notification flag.
C9_Witness ==
  /\ out.kind = "resolved"
  /\ out.call.op = "update"
  /\ out.user.preferences = Prefs("dark", TRUE, "fr")
  /\ MapGet(cachedUsers, out.call.id) = out.user

\* ------------------------------------------------------------------ C10
\* C10 as claimed: when the POST of updateUserPreferences fails, the call has
\* changed neither the cache nor the freshness clock nor the store since it
\* was called.
C10_Original ==
  [][\A p \in Callers :
       pc[p] = "awaitPost" /\ pc'[p] = "idle" /\ out'.kind = "rejected"
       => ~dirty[p]]_vars

\* C10 as amended: when the POST fails, the call rejects with the
\* preferences-update error for the id, and the cache, the freshness clock
\* and the store are as they were when the POST was issued, as far as this
\* call goes: handling the failure changes none of them.
C10_FailedPostChangesNothing ==
  [][\A p \in Callers :
       pc[p] = "awaitPost" /\ pc'[p] = "idle" /\ out'.kind = "rejected"
       => /\ out'.p = p
          /\ out'.error = UpdateError(call[p].id)
          /\ UNCHANGED <<cachedUsers, lastFetchTime, storage>>]_vars

\* An updateUserPreferences call has failed at its POST.
C10_Witness ==
  /\ out.kind = "rejected"
  /\ out.call.op = "update"
  /\ out.error = UpdateError(out.call.id)
  /\ out.logs = <<"error:Failed to update preferences">>

\* ------------------------------------------------------------------ C11
\* C11: in every interleaving, a getUserById(id) call made after a
\* clearCache() that found id cached and fresh is never answered from the
\* cache with an entry that a request issued before that clearCache wrote.
C11_ClearedStaysCleared ==
  [][\A p \in Callers :
       /\ Started(p)
       /\ out'.kind = "resolved" /\ out'.call.op = "get"
       /\ Logged(out', "log:Cache hit for user")
       /\ out'.call.id \in beforeClear.fresh
       => ~beforeClear.entry[out'.call.id]]_vars

\* ------------------------------------------------------------------ C12
\* C12: a getUserById(id) call that starts while id has no cache entry and
\* no other call is active issues one GET, for id; a getUserById call
\* settles when its GET returns, issuing no second one; and when the GET
\* succeeds the cache maps id to the entity the call resolves with.
C12_OneGetFillsCache ==
  [][\A p \in Callers :
       /\ ( /\ Started(p)
            /\ \A q \in Callers : pc[q] = "idle"
            /\ CheckedCall(p).op = "get"
            /\ ~MapHas(cachedUsers, CheckedCall(p).id)
            => /\ pc'[p] = "awaitGet"
               /\ Fetching' = {p}
               /\ call'[p] = CheckedCall(p) )
       /\ ( GetReturned(p) /\ call[p].op = "get" => pc'[p] = "idle" )
       /\ ( GetSucceeded(p) /\ call[p].op = "get"
            => /\ ResolvesWith(p, MapGet(cachedUsers', call[p].id))
               /\ MapHas(cachedUsers', call[p].id)
               /\ out'.user.id = call[p].id )]_vars

\* The only call so far found no entry, fetched, and its user is cached.
C12_Witness ==
  /\ nCalls = 1
  /\ out.kind = "resolved" /\ out.call.op = "get"
  /\ ~Logged(out, "log:Cache hit for user")
  /\ MapGet(cachedUsers, out.call.id) = out.user
  /\ out.user # NoUser

\* ------------------------------------------------------------------ C13
\* C13: the freshness clock is one value for the instance.  Every cache
\* check of a call for id is answered from the cache exactly when id has an
\* entry and clock - lastFetchTime < cacheDuration, whichever id's fetch set
\* lastFetchTime; a check for an id with no entry is not answered from the
\* cache however fresh the clock is: it issues the GET, or waits for the
\* fetch in flight and checks again.
C13_SharedClock ==
  [][\A p \in Callers :
       Checked(p) =>
         LET id == CheckedCall(p).id
             fresh == clock - lastFetchTime < cacheDuration
         IN /\ Logged(out', "log:Cache hit for user")
                 <=> MapHas(cachedUsers, id) /\ fresh
            /\ Logged(out', "log:Cache hit for user") /\ CheckedCall(p).op = "get"
                 => ResolvesWith(p, MapGet(cachedUsers, id))
            /\ ~MapHas(cachedUsers, id)
                 => /\ pc'[p] = (IF fetchInProgress THEN "poll" ELSE "awaitGet")
                    /\ out'.kind = "none"]_vars

\* An entry is served from the cache although the last successful GET for its
\* own id returned cacheDuration ago or earlier, so that by its own fetch it
\* would be stale: a later fetch of another id keeps it fresh.
C13_Witness ==
  /\ out.kind = "resolved" /\ out.call.op = "get"
  /\ Logged(out, "log:Cache hit for user")
  /\ successAt[out.call.id] >= 0
  /\ clock - successAt[out.call.id] >= cacheDuration
  /\ lastFetchTime > successAt[out.call.id]

\* ------------------------------------------------------------------ C15
\* C15: when a GET of getUserById succeeds, the freshness clock becomes the
\* time at which the fetched user is put in the cache, however long the GET
\* took.
C15_ClockSetOnStore ==
  [][\A p \in Callers :
       GetSucceeded(p) /\ MapHas(cachedUsers', call[p].id)
       => lastFetchTime' = clock]_vars

\* ------------------------------------------------------------------ C16
\* C16: when every remote call is answered and the timer fires, every call
\* of a finite set of calls settles; no caller polls for ever; and
\* fetchInProgress is never true with no GET outstanding, and does not stay
\* true.
C16_EveryCallSettles ==
  /\ \A p \in Callers : (pc[p] # "idle") ~> (pc[p] = "idle")
  /\ \A p \in Callers : (pc[p] = "poll") ~> (pc[p] # "poll")
  /\ [](fetchInProgress => Fetching # {})
  /\ fetchInProgress ~> ~fetchInProgress

\* A call that had to poll has been answered, from the cache, and nothing is
\* in flight.
C16_Witness ==
  /\ \E p \in Callers : waitsOn[p].st = "served" /\ pc[p] = "idle"
  /\ \A p \in Callers : pc[p] = "idle"
  /\ ~fetchInProgress

\* ------------------------------------------------------------------ C17
\* Caller p's POST returns with success in this step.
PostSucceeded(p) ==
  pc[p] = "awaitPost" /\ pc'[p] = "idle" /\ out'.kind = "resolved"
\* No call moves in this step, and the cache and the clock are reset.
Cleared ==
  /\ UNCHANGED <<pc, call, fetchInProgress, storage>>
  /\ cachedUsers' = EmptyMap
  /\ lastFetchTime' = 0

\* C17: the cache has one entry per id, under an id of Ids and for that id.
\* In every step, an entry for id that is written is what a GET for id that
\* succeeds in the step returned, or what a POST for id that succeeds in the
\* step returned with the preferences the call merged; entries go only by
\* clearCache; and lastFetchTime changes only when a GET succeeds or with
\* clearCache, which makes it 0: a POST, failed or not, and a failed GET
\* leave it, and a failed GET leaves the cache, as they are.
C17_CacheAndClockWriters ==
  /\ [](\A id \in DOMAIN cachedUsers : id \in Ids /\ cachedUsers[id].id = id)
  /\ [][\A id \in Ids :
          MapGet(cachedUsers', id) # MapGet(cachedUsers, id)
          => \/ Cleared
             \/ \E p \in Callers :
                  /\ GetSucceeded(p) /\ call[p].id = id
                  /\ \E body \in ServerBodies :
                       cachedUsers'[id] = User(id, body.lastLogin, body.preferences)
                  /\ call[p].op = "get" => cachedUsers'[id] = out'.user
             \/ \E p \in Callers :
                  /\ PostSucceeded(p) /\ call[p].id = id
                  /\ cachedUsers'[id] = out'.user
                  /\ cachedUsers'[id].preferences = postBody[p]]_vars
  /\ [][lastFetchTime' # lastFetchTime
          => \/ Cleared
             \/ \E p \in Callers : GetSucceeded(p) /\ lastFetchTime' = now[p]]_vars
  /\ [][\A p \in Callers :
          /\ pc[p] = "awaitPost" /\ pc'[p] # "awaitPost"
               => UNCHANGED lastFetchTime
          /\ GetFailed(p) => UNCHANGED <<cachedUsers, lastFetchTime>>]_vars

\* An updateUserPreferences call has put its user, with the merged
\* preferences, in the cache, later than the freshness clock says, which a
\* GET had set.
C17_Witness ==
  /\ out.kind = "resolved" /\ out.call.op = "update"
  /\ MapGet(cachedUsers, out.call.id) = out.user
  /\ out.user.preferences.language = "fr"
  /\ lastFetchTime >= StartTime
  /\ clock > lastFetchTime

\* ============================================================ scoring
\* calculateUserScore(user), lines 152-195.  Strings are sequences of
\* characters.  Times are in seconds here: thirty days in milliseconds is
\* more than the model's integers hold.
Day == 24 * 60 * 60
ScoreNow == 40 * Day            \* Date.now(), line 166

Whitespace == {" ", "\t"}       \* what String.prototype.trim strips

\* s.split(sep) for a separator of one character.
RECURSIVE Split(_, _)
Split(s, sep) ==
  IF \E i \in 1..Len(s) : s[i] = sep
  THEN LET i == CHOOSE j \in 1..Len(s) :
                  s[j] = sep /\ \A k \in 1..(j - 1) : s[k] # sep
       IN <<SubSeq(s, 1, i - 1)>> \o Split(SubSeq(s, i + 1, Len(s)), sep)
  ELSE <<s>>

\* s.trim()
RECURSIVE Trim(_)
Trim(s) ==
  IF s = << >> THEN s
  ELSE IF Head(s) \in Whitespace THEN Trim(Tail(s))
  ELSE IF s[Len(s)] \in Whitespace THEN Trim(SubSeq(s, 1, Len(s) - 1))
  ELSE s

\* s.endsWith(suffix)
EndsWith(s, suffix) ==
  /\ Len(suffix) <= Len(s)
  /\ SubSeq(s, Len(s) - Len(suffix) + 1, Len(s)) = suffix

Min(a, b) == IF a < b THEN a ELSE b

Gmail == <<"g", "m", "a", "i", "l", ".", "c", "o", "m">>
Hotmail == <<"h", "o", "t", "m", "a", "i", "l", ".", "c", "o", "m">>
DotEdu == <<".", "e", "d", "u">>
DotGov == <<".", "g", "o", "v">>

\* line 160: user.email.split('@')[1], undefined when there is no '@'.
EmailDomain(email) ==
  LET parts == Split(email, "@") IN
  IF Len(parts) >= 2 THEN [defined |-> TRUE, s |-> parts[2]]
  ELSE [defined |-> FALSE, s |-> << >>]

\* lines 161-164: domain.endsWith is reached, and throws on undefined.
EmailThrows(email) ==
  /\ email # << >>
  /\ ~EmailDomain(email).defined

\* lines 159-165
EmailBonus(email) ==
  LET domain == EmailDomain(email).s IN
  IF email = << >> THEN 0
  ELSE IF domain = Gmail THEN 5
  ELSE IF domain = Hotmail THEN 3
  ELSE IF EndsWith(domain, DotEdu) THEN 10
  ELSE IF EndsWith(domain, DotGov) THEN 15
  ELSE 2

\* lines 168-173
RecencyBonus(lastLogin, today) ==
  IF lastLogin.type # "Date" THEN 0
  ELSE IF today - lastLogin.t < Day THEN 20
  ELSE IF today - lastLogin.t < 7 * Day THEN 15
  ELSE IF today - lastLogin.t < 30 * Day THEN 5
  ELSE 0

\* lines 183-185
LengthBonus(totalLength) ==
  IF totalLength > 15 THEN 3
  ELSE IF totalLength > 10 THEN 2
  ELSE IF totalLength > 5 THEN 1
  ELSE 0

\* lines 176-186
NameBonus(name) ==
  IF name = << >> THEN 0
  ELSE LET nameParts == Split(Trim(name), " ") IN
       Min(Len(nameParts) * 2, 10) + LengthBonus(Len(name))

\* lines 189-193
PreferenceBonus(preferences) ==
  IF ~preferences.set THEN 0
  ELSE (IF preferences.notifications THEN 5 ELSE 0)
       + (IF preferences.theme = "dark" THEN 2 ELSE 0)
       + (IF preferences.language # "" /\ preferences.language # "en"
          THEN 3 ELSE 0)

\* calculateUserScore(user) called when Date.now() is today.  Every summand
\* is an integer, which Math.round returns as it is.
CalculateUserScore(user, today) ==
  IF user.null THEN Returned(0)
  ELSE IF EmailThrows(user.email) THEN ThrewTypeError
  ELSE Returned(10 + EmailBonus(user.email)
                   + RecencyBonus(user.lastLogin, today)
                   + NameBonus(user.name)
                   + PreferenceBonus(user.preferences))

\* ----------------------------------------------------------- the inputs
MaxPieces == 4       \* pieces a name is put together from

RECURSIVE Concat(_)
Concat(seqs) == IF seqs = << >> THEN << >> ELSE Head(seqs) \o Concat(Tail(seqs))

Pieces == { <<"x">>, <<"x", "x", "x", "x", "x">>, <<" ">>, <<"\t">> }
SixWords ==
  <<"a", " ", "b", " ", "c", " ", "d", " ", "e", " ", "f", "g", "h", "i",
    "j", "k", "l">>
Names ==
  { Concat(ps) : ps \in UNION { [1..n -> Pieces] : n \in 0..MaxPieces } }
    \cup { SixWords }
Emails ==
  { << >>, <<"a", "@">> \o Gmail, <<"a", "@">> \o Hotmail,
    <<"a", "@", "u">> \o DotEdu, <<"a", "@", "u">> \o DotGov,
    <<"a", "@", "u", ".", "i", "o">>, <<"a", "@">>,
    <<"a", "@", "b", "@">> \o Gmail, <<"b", "o", "b">> }
Logins ==
  { NoLogin } \cup
  { DateOf(ScoreNow - age) : age \in {0, Day - 1, Day, 7 * Day, 30 * Day - 1, 30 * Day} }
ScorePreferences ==
  { NoPrefs, Prefs("dark", TRUE, "fr"), Prefs("light", FALSE, "en") }
Profiles ==
  { NoProfile } \cup
  { Profile(n, e, ll, pr) :
      n \in Names, e \in Emails, ll \in Logins, pr \in ScorePreferences }

\* The service is constructed and idle; calculateUserScore is about to be
\* called on some user.
InitScore ==
  /\ ServiceIdle
  /\ NoRetrying
  /\ NoListening
  /\ scoreUser \in Profiles
  /\ score = NotScored

Score ==
  /\ score = NotScored
  /\ score' = CalculateUserScore(scoreUser, ScoreNow)
  /\ UNCHANGED scoreUser
  /\ UNCHANGED <<userService, retrying, listening>>

NextScore == Score
SpecScore == InitScore /\ [][NextScore]_vars

\* ------------------------------------------------------------------ C14
\* The email-domain bonus as the claim tabulates it: one of its five cases
\* for every entity.
TabulatedEmailBonus(email) ==
  LET domain == EmailDomain(email).s IN
  IF domain = Gmail THEN 5
  ELSE IF domain = Hotmail THEN 3
  ELSE IF EndsWith(domain, DotEdu) THEN 10
  ELSE IF EndsWith(domain, DotGov) THEN 15
  ELSE 2

\* C14: calculateUserScore returns 0 for null; for every other entity it
\* returns 10 plus the email-domain bonus, the recency bonus of lastLogin if
\* present, the name bonus and the preference bonus, a number between 10
\* and 68.
C14_ScoreIsSumOfBonuses ==
  score # NotScored =>
    IF scoreUser.null THEN score = Returned(0)
    ELSE /\ score.kind = "returned"
         /\ score.value = 10 + TabulatedEmailBonus(scoreUser.email)
                             + RecencyBonus(scoreUser.lastLogin, ScoreNow)
                             + NameBonus(scoreUser.name)
                             + PreferenceBonus(scoreUser.preferences)
         /\ score.value \in 10..68

\* ------------------------------------------------------------------ C18
\* The tokens of a name that whitespace delimits: the first characters of
\* its runs of other characters.
Tokens(name) ==
  Cardinality({ i \in 1..Len(name) :
                  /\ name[i] \notin Whitespace
                  /\ (i = 1 \/ name[i - 1] \in Whitespace) })

\* C18: for every non-empty name the name bonus is 2 for each
\* whitespace-delimited token of the trimmed name, a run of whitespace
\* delimiting once, and 10 at most, plus the length bonus of the untrimmed
\* length: 3 above 15, else 2 above 10, else 1 above 5, else 0.
C18_NameBonusPerToken ==
  score.kind = "returned" /\ ~scoreUser.null /\ scoreUser.name # << >>
  => score.value = 10 + EmailBonus(scoreUser.email)
                      + RecencyBonus(scoreUser.lastLogin, ScoreNow)
                      + Min(2 * Tokens(Trim(scoreUser.name)), 10)
                      + ( IF Len(scoreUser.name) > 15 THEN 3
                          ELSE IF Len(scoreUser.name) > 10 THEN 2
                          ELSE IF Len(scoreUser.name) > 5 THEN 1
                          ELSE 0 )
                      + PreferenceBonus(scoreUser.preferences)

\* ===================================================== retry with backoff
\* fetchUserDataWithRetry(userId, maxRetries), src/src/hardToTest.ts lines
\* 160-183.  An action is one piece of attemptFetch between two awaits, or
\* the timer's callback.
MaxRetries == 3      \* maxRetries is drawn from 0..MaxRetries
Backoff == 500       \* Math.pow(2, retryCount) * 500
Jitters == {0, 250, 499}  \* whole values of Math.random() * 500
TimeStep == 250      \* by how much the time since the timer was set grows

RECURSIVE Pow2(_)
Pow2(k) == IF k = 0 THEN 1 ELSE 2 * Pow2(k - 1)

\* line 174
Delay(count, jitter) == Pow2(count) * Backoff + jitter

\* Variant of CanRetry: one retry more.
CanRetryInclusive(count, max) == count <= max

\* line 169: retryCount < maxRetries
CanRetry(count, max) == count < max

\* fetchUserDataWithRetry has been called and its first fetch is outstanding.
InitRetry ==
  /\ ServiceIdle
  /\ NoScoring
  /\ NoListening
  /\ maxRetries \in 0..MaxRetries
  /\ retryCount = 0
  /\ retryPc = "fetch"
  /\ delay = 0
  /\ elapsed = 0
  /\ retryOut = NotSettled
  /\ attempts = 1

\* lines 168-180: the catch block.
Catch ==
  IF CanRetry(retryCount, maxRetries)
  THEN /\ retryCount' = retryCount + 1
       /\ \E jitter \in Jitters : delay' = Delay(retryCount + 1, jitter)
       /\ elapsed' = 0
       /\ retryPc' = "wait"
       /\ UNCHANGED retryOut
  ELSE /\ retryPc' = "done"
       /\ retryOut' = RetryRejected(attempts)
       /\ UNCHANGED <<retryCount, delay, elapsed>>

\* lines 165-166: fetch rejects, or answers with a response that is not ok.
FetchFails ==
  /\ retryPc = "fetch"
  /\ Catch
  /\ UNCHANGED <<maxRetries, attempts>>
  /\ UNCHANGED <<userService, scoring, listening>>

\* lines 165-167: fetch answers with an ok response; its body is read.
FetchResponds ==
  /\ retryPc = "fetch"
  /\ retryPc' = "json"
  /\ UNCHANGED <<maxRetries, retryCount, delay, elapsed, retryOut, attempts>>
  /\ UNCHANGED <<userService, scoring, listening>>

\* line 167: response.json() resolves, and so does the promise.
JsonResolves ==
  /\ retryPc = "json"
  /\ retryPc' = "done"
  /\ retryOut' = RetryResolved(attempts)
  /\ UNCHANGED <<maxRetries, retryCount, delay, elapsed, attempts>>
  /\ UNCHANGED <<userService, scoring, listening>>

\* line 167: response.json() rejects.
JsonFails ==
  /\ retryPc = "json"
  /\ Catch
  /\ UNCHANGED <<maxRetries, attempts>>
  /\ UNCHANGED <<userService, scoring, listening>>

\* lines 175-177: the timer fires, not before its delay, and attemptFetch
\* calls fetch again.
TimerFires ==
  /\ retryPc = "wait"
  /\ elapsed >= delay
  /\ attempts' = attempts + 1
  /\ retryPc' = "fetch"
  /\ delay' = 0
  /\ elapsed' = 0
  /\ UNCHANGED <<maxRetries, retryCount, retryOut>>
  /\ UNCHANGED <<userService, scoring, listening>>

\* Time passes while the timer is pending.
RetryTick ==
  /\ retryPc = "wait"
  /\ elapsed < delay
  /\ elapsed' = elapsed + TimeStep
  /\ UNCHANGED <<maxRetries, retryCount, retryPc, delay, retryOut, attempts>>
  /\ UNCHANGED <<userService, scoring, listening>>

NextRetry ==
  \/ FetchFails
  \/ FetchResponds
  \/ JsonResolves
  \/ JsonFails
  \/ TimerFires
  \/ RetryTick

\* Every fetch and every read of a body completes, and the timer fires.
SpecRetry == InitRetry /\ [][NextRetry]_vars /\ WF_vars(NextRetry)

\* ------------------------------------------------------------------ C19
\* C19: fetchUserDataWithRetry calls fetch at most maxRetries + 1 times.  It
\* resolves with the body of the first attempt that succeeds, which is the
\* last it makes; it rejects, with the last attempt's error, only when
\* maxRetries retries have been made and have failed; once settled it calls
\* fetch no more; the k-th retry begins 2^k * 500 ms or more after the
\* k-th failure; and when every attempt completes it settles.
C19_BoundedRetries ==
  /\ [](attempts <= maxRetries + 1)
  /\ [](retryOut.kind = "resolved"
          => retryOut.attempt = attempts /\ retryCount = attempts - 1)
  /\ [](retryOut.kind = "rejected"
          => /\ retryCount = maxRetries
             /\ attempts = maxRetries + 1
             /\ retryOut.attempt = attempts)
  /\ [][retryOut.kind # "none" => UNCHANGED <<attempts, retryOut>>]_vars
  /\ [][attempts' # attempts
          => /\ attempts' = attempts + 1
             /\ retryCount = attempts
             /\ elapsed >= Pow2(attempts) * 500]_vars
  /\ <>(retryOut.kind # "none")

\* The call has rejected after two retries or more.
C19_Witness ==
  /\ retryOut.kind = "rejected"
  /\ retryCount >= 2
  /\ attempts = retryCount + 1

\* ============================================================ listeners
\* addListener, removeListener and notifyListeners of HardToTest,
\* src/src/hardToTest.ts lines 114-131.  Each is synchronous: one action.
MaxListeners == 3    \* registrations at a time

\* The functions that callers register.  "boom" throws when it is called;
\* "once" calls removeListener on itself; the others return.
Callbacks == {"f", "g", "boom", "once"}
Throws(cb) == cb = "boom"

\* line 119: this._listeners.filter(cb => cb !== callback)
Filter(ls, callback) == SelectSeq(ls, LAMBDA cb : cb # callback)

\* Variant of Propagates: no try around the call.
PropagatesUncaught(thrown) == thrown

\* lines 124-128: whether what a callback throws leaves the forEach.
Propagates(thrown) == FALSE

\* lines 123-129: forEach over the array that this._listeners is when the
\* notification begins, from its i-th element on.  removeListener puts a new
\* array in this._listeners and leaves that one as it is.  run is what the
\* notification has done so far.
RECURSIVE ForEach(_, _, _)
ForEach(array, i, run) ==
  IF i > Len(array) \/ run.threw THEN run
  ELSE LET callback == array[i] IN
       ForEach(array, i + 1,
               [listeners |-> IF callback = "once"
                              THEN Filter(run.listeners, callback)
                              ELSE run.listeners,
                invoked |-> Append(run.invoked, callback),
                errors |-> IF Throws(callback) /\ ~Propagates(TRUE)
                           THEN run.errors + 1 ELSE run.errors,
                threw |-> Propagates(Throws(callback))])

\* A HardToTest is constructed, line 8.
InitListeners ==
  /\ ServiceIdle
  /\ NoScoring
  /\ NoRetrying
  /\ listeners = << >>
  /\ invoked = << >>
  /\ listenerOut = NoListenerOp

\* lines 114-116
AddListener(callback) ==
  /\ Len(listeners) < MaxListeners
  /\ listeners' = Append(listeners, callback)
  /\ invoked' = << >>
  /\ listenerOut' = ListenerOut("add", callback, 0, FALSE)
  /\ UNCHANGED <<userService, scoring, retrying>>

\* lines 118-120
RemoveListener(callback) ==
  /\ listeners' = Filter(listeners, callback)
  /\ invoked' = << >>
  /\ listenerOut' = ListenerOut("remove", callback, 0, FALSE)
  /\ UNCHANGED <<userService, scoring, retrying>>

\* lines 122-130, called by handleGlobalClick and processUserData.
NotifyListeners ==
  LET run == ForEach(listeners, 1,
                     [listeners |-> listeners, invoked |-> << >>,
                      errors |-> 0, threw |-> FALSE])
  IN /\ listeners' = run.listeners
     /\ invoked' = run.invoked
     /\ listenerOut' = ListenerOut("notify", "", run.errors, run.threw)
     /\ UNCHANGED <<userService, scoring, retrying>>

NextListeners ==
  \/ \E callback \in Callbacks : AddListener(callback)
  \/ \E callback \in Callbacks : RemoveListener(callback)
  \/ NotifyListeners

SpecListeners == InitListeners /\ [][NextListeners]_vars

\* ------------------------------------------------------------------ C20
\* C20: a notification calls every listener registered when it begins, once
\* for each registration and in the order of registration, whether or not a
\* listener throws, and throws nothing itself; removeListener(cb) leaves no
\* registration of cb and leaves the other registrations, in their order.
C20_NotifyAllRemoveAll ==
  [][/\ listenerOut'.op = "notify"
        => /\ invoked' = listeners
           /\ ~listenerOut'.threw
           /\ listenerOut'.errors
                = Cardinality({i \in 1..Len(listeners) : Throws(listeners[i])})
     /\ listenerOut'.op = "remove"
        => LET cb == listenerOut'.cb
               kept == {i \in 1..Len(listeners) : listeners[i] # cb}
               nth(j) == CHOOSE i \in kept :
                           Cardinality({k \in kept : k <= i}) = j
           IN /\ Len(listeners') = Cardinality(kept)
              /\ \A j \in 1..Len(listeners') : listeners'[j] = listeners[nth(j)]
              /\ \A j \in 1..Len(listeners') : listeners'[j] # cb]_vars

\* A notification has called three listeners, the first of which threw and
\* the other two of which are one function registered twice.
C20_Witness ==
  /\ listenerOut.op = "notify"
  /\ Len(invoked) = 3
  /\ Throws(invoked[1])
  /\ invoked[2] = invoked[3]
  /\ listenerOut.errors = 1
  /\ ~listenerOut.threw

TypeOK ==
  /\ fetchInProgress \in BOOLEAN
  /\ DOMAIN cachedUsers \subseteq Ids
  /\ lastFetchTime \in {0} \cup (StartTime..StartTime + MaxTime)
  /\ clock \in StartTime..StartTime + MaxTime

====
